---- MODULE Spec2Model ----
(***************************************************************************)
(* Model of the maintenance server (angelogds/manutencao-reciclagem):      *)
(* the belt ("correia") stock ledger and the service-order ("ordens")      *)
(* lifecycle, as the Express handlers drive them against SQLite.           *)
(*                                                                         *)
(* Every SQL statement is one atomic step.  A handler is suspended at each *)
(* `await`, so statements of different requests interleave freely.         *)
(* A statement may also be rejected by the store (runAsync's reject path), *)
(* which sends the handler to its catch block.                             *)
(*                                                                         *)
(* The debit handler runs three statements and is modelled with a position *)
(* per request.  The /ordens handlers run one statement each and touch no  *)
(* shared state before it, so each is one step; both variants of the       *)
(* server (with and without login) run the same statements there.          *)
(* The part routes (/correias/novo, /:id/editar, /:id/delete) run one     *)
(* statement each; saving the parts of an equipment, deleting an equipment *)
(* and resetting a password run several and have a position per request.   *)
(* Under SpecAcesso and SpecUsuarios a request first goes through the      *)
(* session layer (express.static, the global middleware, the router and    *)
(* the middlewares of its route), which answers it or hands it to the      *)
(* handler; the other specifications take requests that carry a logged-in  *)
(* session.                                                                *)
(***************************************************************************)
EXTENDS Integers, Sequences, FiniteSets, TLC

\* ---------------------------------------------------------------- bounds
MaxQtd      == 2        \* largest stock a part starts with
NumBaixas   == 2        \* concurrent POST /equipamentos/:id/baixar-correia requests
MaxOrdens   == 2        \* POST /ordens is served while there are fewer orders
MaxRelogio  == 1        \* the clock advances at most this far
MaxCarga    == 2        \* state-adding requests taken in all
MaxRegistros == 2       \* Consumption Records in the store a report is run on
MaxTokens   == 2        \* POST /forgot is served while fewer tokens were issued
MaxPedidos  == 2        \* requests that go through the session layer, in all

\* Encoding of SQL NULL in integer and datetime columns (ids and times are >= 0).
NULL == -1
\* Encoding of SQL NULL in a text column / of an absent form field.
NULO == "<null>"
\* Encoding of SQL NULL in correias.quantidade, which may hold negative numbers:
\* an integer that no request under the bounds can produce.
QtdNull == -1000

\* ---------------------------------------------------------------- inputs
\* Form fields arrive as strings; a string is a sequence of characters.
Vazio == << >>
\* Ids of the rows in table equipamentos at start.
EquipamentosNoInicio == { 1, 2 }
\* Ids of the parts in table correias at start.
CorreiasNoInicio == { 1, 2 }
\* req.body of POST /equipamentos/:id/baixar-correia; part 7 does not exist.
CorposBaixa ==
  { [ correia_id |-> <<"1">>, quantidade |-> <<"1">> ],
    [ correia_id |-> <<"1">>, quantidade |-> <<"2", "x">> ],
    [ correia_id |-> <<"2">>, quantidade |-> <<"1">> ],
    [ correia_id |-> <<"2">>, quantidade |-> <<"2">> ],
    [ correia_id |-> <<"7">>, quantidade |-> <<"1">> ],
    [ correia_id |-> <<"x">>, quantidade |-> <<"1">> ],
    [ correia_id |-> <<"1">>, quantidade |-> <<"0">> ],
    [ correia_id |-> <<"2">>, quantidade |-> <<"-", "1">> ],
    [ correia_id |-> <<"1">>, quantidade |-> Vazio ] }
\* req.params.id of the equipment routes (stored as given).
ParamEquipamentos == { 1 }

\* Form field equipamento_id of POST /ordens; equipment 5 does not exist.
CorpoEquipamentos == { Vazio, <<"1">>, <<"5">> }
Solicitantes == { "Joao" }
Tipos == { "corretiva" }
Descricoes == { "ruido no motor" }
\* req.params.id of POST /ordens/:id/fechar.
ParamOrdens == { 1, 2 }
CorpoResultados == { "rolamento trocado", "sem defeito" }
\* Column nome of the parts in table correias at start.
NomeNoInicio(i) == IF i = 1 THEN "A-32" ELSE "B-45"
\* req.body of POST /correias/novo and POST /correias/:id/editar.
CorposCorreia ==
  { [ nome |-> "A-32", quantidade |-> <<"2">> ],
    [ nome |-> "A-32", quantidade |-> <<"-", "1">> ],
    [ nome |-> "B-45", quantidade |-> <<"a", "b", "c">> ],
    [ nome |-> "B-45", quantidade |-> Vazio ] }
\* req.params.id of POST /correias/:id/editar and /correias/:id/delete.
ParamCorreias == { 1, 2 }
\* Form field usuario of POST /forgot; there is no user "bia".
CorpoUsuarios == { "ana", "bia" }
\* req.params.token of POST /reset/:token: the n-th token issued is written n;
\* token 9 was never issued.
ParamTokens == { 1, 2, 9 }
\* Form field senha of POST /reset/:token.
CorpoSenhas == { "nova1", "nova2" }
\* req.query.mes of GET /correias/relatorio: absent, or a month.
ParamMes == { NULL, 0, 1 }
\* Column data of the Consumption Records the report is run on.
DatasNoInicio == { 0, 1, 2 }
\* Column nome of the rows of table equipamentos (the column is not UNIQUE).
NomesEquipamento == { "Esteira", "Prensa" }
\* req.params.id of POST /equipamentos/:id/delete; equipment 5 does not exist.
ParamExcluir == { 1, 5 }
\* req.params.id of POST /equipamentos/:id/correias.
ParamSalvar == { 1, 2 }
\* req.body of POST /equipamentos/:id/correias: the checked part ids (field
\* correia) and, in the same order, the field qtd_<id> of each.
CorposSalvar ==
  { [ correia |-> << >>, qtds |-> << >> ],
    [ correia |-> << <<"1">> >>, qtds |-> << <<"2">> >> ],
    [ correia |-> << <<"2">> >>, qtds |-> << Vazio >> ],
    [ correia |-> << <<"1">>, <<"2">> >>, qtds |-> << <<"1">>, <<"3">> >> ] }

Baixas == 1 .. NumBaixas

VARIABLES
  correias,           \* table correias: id -> [nome, quantidade]
  consumo_correias,   \* table consumo_correias, in insertion (id) order
  equipamentos,       \* ids present in table equipamentos
  ordens,             \* table ordens, in insertion (id) order
  relogio,            \* CURRENT_TIMESTAMP
  baixa,              \* per request: state of the baixar-correia handler
  pedidoOS,           \* the /ordens request served last, with its response
  inicial,            \* stock of each part when the requests began
  seq_correias,       \* sqlite_sequence of correias: the largest id given so far
  equipamentos_nome,  \* column nome of table equipamentos: id -> nome
  correias_equipamentos, \* table correias_equipamentos, in insertion (id) order
  assoc,              \* per request: state of the save-associations handler
  exclusao,           \* state of the equipment delete handler
  pedidoCorreia,      \* the /correias POST request served last, with its response
  atendidos,          \* number of /correias POST requests served
  relatorio,          \* what GET /correias/relatorio rendered last
  usuarios,           \* table usuarios: id -> [usuario, senha, nome, role]
  password_tokens,    \* table password_tokens, in insertion (id) order
  seq_tokens,         \* sqlite_sequence of password_tokens: rows inserted so far
  reset,              \* per request: state of the POST /reset/:token handler
  seq_usuarios,       \* sqlite_sequence of usuarios: the largest id given so far
  sessoes,            \* the session store: session id -> req.session
  req,                \* the request that came in last, with its response
  chegadas            \* number of requests that came in

\* The state of the part, association, equipment-delete and report routes.
cadastro == << seq_correias, equipamentos_nome, correias_equipamentos, assoc,
               exclusao, pedidoCorreia, atendidos, relatorio >>

\* The state of the account routes.
\* The state of the session layer and of the /users routes.
acesso == << seq_usuarios, sessoes, req, chegadas >>

conta == << usuarios, password_tokens, seq_tokens, reset, acesso >>

vars == << correias, consumo_correias, equipamentos, ordens, relogio,
           baixa, pedidoOS, inicial, cadastro, conta >>

\* ---------------------------------------------------------------- parseInt
Digitos == { "0", "1", "2", "3", "4", "5", "6", "7", "8", "9" }

DigitVal(c) ==
  CASE c = "0" -> 0 [] c = "1" -> 1 [] c = "2" -> 2 [] c = "3" -> 3
    [] c = "4" -> 4 [] c = "5" -> 5 [] c = "6" -> 6 [] c = "7" -> 7
    [] c = "8" -> 8 [] c = "9" -> 9

NaN == [nan |-> TRUE, val |-> 0]
Num(n) == [nan |-> FALSE, val |-> n]

RECURSIVE SkipEspacos(_)
SkipEspacos(s) ==
  IF s # << >> /\ Head(s) = " " THEN SkipEspacos(Tail(s)) ELSE s

\* Longest prefix of decimal digits of s, as a number; acc is the value so far.
RECURSIVE LerDigitos(_, _)
LerDigitos(s, acc) ==
  IF s # << >> /\ Head(s) \in Digitos
    THEN LerDigitos(Tail(s), 10 * acc + DigitVal(Head(s)))
    ELSE acc

\* parseInt(s, 10): leading blanks, an optional sign, then the longest run of
\* digits; whatever follows is ignored; NaN when there is no digit.
ParseInt(str) ==
  LET s    == SkipEspacos(str)
      neg  == s # << >> /\ Head(s) = "-"
      body == IF s # << >> /\ Head(s) \in { "-", "+" } THEN Tail(s) ELSE s
  IN  IF body = << >> \/ Head(body) \notin Digitos
        THEN NaN
        ELSE Num(IF neg THEN 0 - LerDigitos(body, 0) ELSE LerDigitos(body, 0))

\* JavaScript `!x` for a number: true for NaN and 0.
Falsy(x) == x.nan \/ x.val = 0

\* JavaScript `x <= 0` for a number: false for NaN.
MenorOuIgualZero(x) == ~ x.nan /\ x.val <= 0

\* ---------------------------------------------------------------- store
ExisteCorreia(id) == id \in DOMAIN correias

\* SQL `a - q`: NULL when a is NULL.
Menos(a, q) == IF a = QtdNull THEN QtdNull ELSE a - q

\* The stock UPDATE without its WHERE clause: every part is debited.
UpdateQuantidadeMut(tab, cid, q) ==
  [ i \in DOMAIN tab |-> [ tab[i] EXCEPT !.quantidade = Menos(@, q) ] ]

\* UPDATE correias SET quantidade = quantidade - q WHERE id = cid
UpdateQuantidade(tab, cid, q) ==
  [ i \in DOMAIN tab |->
      IF i = cid THEN [ tab[i] EXCEPT !.quantidade = Menos(@, q) ] ELSE tab[i] ]

\* The history INSERT writing over the newest record instead of adding one.
InsertConsumoSobrescreve(tab, e, cid, q, agora) ==
  LET novo == [ equipamento_id |-> e, correia_id |-> cid,
                quantidade |-> q, data |-> agora ]
  IN  IF tab = << >> THEN << novo >> ELSE [ tab EXCEPT ![Len(tab)] = novo ]

\* INSERT INTO consumo_correias (equipamento_id, correia_id, quantidade)
InsertConsumo(tab, e, cid, q, agora) ==
  Append(tab, [ equipamento_id |-> e, correia_id |-> cid,
                quantidade |-> q, data |-> agora ])

\* ---------------------------------------------------------------- responses
Redirect == "redirect"
QuantidadeInvalida == "Quantidade invalida."
CorreiaNaoEncontrada == "Correia nao encontrada."
EstoqueInsuficiente == "Estoque insuficiente. Atualize o estoque antes."
ErroDebitar == "Erro ao debitar correia."
SemResposta == "-"

BaixaLivre ==
  [ pc |-> "livre", equipamento_id |-> NULL,
    corpo_correia_id |-> Vazio, corpo_quantidade |-> Vazio,
    correia_id |-> NULL, quantidade |-> 0,
    resposta |-> SemResposta ]

ErroCriarOS == "Erro ao criar OS."
ErroFecharOS == "Erro ao fechar OS."

NenhumPedidoOS ==
  [ rota |-> "-", equipamento_id |-> NULL, id |-> NULL, resultado |-> NULO,
    resposta |-> SemResposta ]

ErroCriarCorreia == "Erro ao criar correia."
ErroAtualizarCorreia == "Erro ao atualizar correia."
ErroDeletarCorreia == "Erro ao deletar correia."

EquipamentoNaoEncontrado == "Equipamento nao encontrado."
ErroDeletarEquipamento == "Erro ao deletar equipamento."
ErroSalvarAssociacoes == "Erro ao salvar associacoes."

CorpoAusente == [ nome |-> NULO, quantidade |-> Vazio ]

NenhumPedidoCorreia ==
  [ rota |-> "-", id |-> NULL, corpo |-> CorpoAusente, resposta |-> SemResposta ]

\* Concurrent POST /equipamentos/:id/correias requests.
Salvamentos == { 1, 2 }

SalvarLivre ==
  [ pc |-> "livre", equipamento_id |-> NULL, correiaIds |-> << >>,
    qtds |-> << >>, k |-> 0, resposta |-> SemResposta ]

ExclusaoLivre == [ pc |-> "livre", id |-> NULL, resposta |-> SemResposta ]

ErroRelatorio == "Erro ao gerar relatorio."
Renderizado == "relatorio_correias"

NenhumRelatorio == [ mes |-> NULL, rel |-> << >>, resposta |-> SemResposta ]

\* bcrypt.hash(senha, 10), kept as a value that names the password hashed.
HashDe(senha) == << "bcrypt", senha >>

\* Table usuarios at start.
UsuariosNoInicio ==
  [ u \in { 1, 2 } |->
      IF u = 1
        THEN [ usuario |-> "ana", senha |-> HashDe("senha0"),
               nome |-> "Ana", role |-> "admin" ]
        ELSE [ usuario |-> "rui", senha |-> HashDe("senha0"),
               nome |-> "Rui", role |-> "funcionario" ] ]

\* Session ids (the cookie connect.sid) of the browsers that send requests.
Sessoes == { 1, 2 }

\* req.session of a browser that has not logged in.
SessaoVazia == [ usuario |-> NULO, userId |-> NULL, role |-> NULO ]

\* Concurrent POST /reset/:token requests.
Resets == { 1, 2 }

ResetLivre ==
  [ pc |-> "livre", token |-> NULL, senha |-> NULO, usuario_id |-> NULL,
    resposta |-> SemResposta ]

TokenInvalido == "Token invalido."
TokenExpirado == "Token expirado."
SenhaAtualizada == "Senha atualizada com sucesso!"
ErroInterno == "Erro interno."

\* What a middleware answers when it calls next().
Segue == "next"
\* res.redirect('/login')
RedirectLogin == "redirect /login"
\* res.status(403).send('Acesso negado.')
AcessoNegado == "403 Acesso negado."
\* The middlewares have all called next(): the handler of the route runs.
EmAtendimento == "handler"
\* res.redirect('/users')
RedirectUsers == "redirect /users"

NenhumPedido ==
  [ session |-> NULL, method |-> "-", path |-> << >>, rota |-> "-",
    res |-> SemResposta ]

\* ---------------------------------------------------------------- Init
Init ==
  /\ \E q \in [ CorreiasNoInicio -> 0 .. MaxQtd ] :
       correias = [ i \in CorreiasNoInicio |->
                      [ nome |-> NomeNoInicio(i), quantidade |-> q[i] ] ]
  /\ inicial = [ i \in DOMAIN correias |-> correias[i].quantidade ]
  /\ consumo_correias = << >>
  /\ equipamentos = EquipamentosNoInicio
  /\ ordens = << >>
  /\ relogio = 0
  /\ baixa = [ r \in Baixas |-> BaixaLivre ]
  /\ pedidoOS = NenhumPedidoOS
  /\ seq_correias = 2
  /\ equipamentos_nome = [ e \in EquipamentosNoInicio |->
                             IF e = 1 THEN "Esteira" ELSE "Prensa" ]
  /\ correias_equipamentos = << >>
  /\ assoc = [ s \in Salvamentos |-> SalvarLivre ]
  /\ exclusao = ExclusaoLivre
  /\ pedidoCorreia = NenhumPedidoCorreia
  /\ atendidos = 0
  /\ relatorio = NenhumRelatorio
  /\ usuarios = UsuariosNoInicio
  /\ password_tokens = << >>
  /\ seq_tokens = 0
  /\ reset = [ r \in Resets |-> ResetLivre ]
  /\ seq_usuarios = 2
  /\ sessoes = [ s \in Sessoes |-> SessaoVazia ]
  /\ req = NenhumPedido
  /\ chegadas = 0

\* ---------------------------------------------------------------- Baixa
\* The validation without its `quantidade <= 0` test.
EntradaInvalidaMut(cid, q) == Falsy(cid) \/ Falsy(q)

\* if (!correia_id || !quantidade || quantidade <= 0)
EntradaInvalida(cid, q) == Falsy(cid) \/ Falsy(q) \/ MenorOuIgualZero(q)

\* JavaScript Number(x) of a column value: null becomes 0.
Numero(x) == IF x = QtdNull THEN 0 ELSE x

\* The stock check off by one.
InsuficienteMut(emEstoque, q) == Numero(emEstoque) + 1 < q

\* if (correia.quantidade < quantidade)
Insuficiente(emEstoque, q) == Numero(emEstoque) < q

\* The handler up to its first await: parse the form, validate, issue the SELECT.
BaixarCorreia(r) ==
  /\ baixa[r].pc = "livre"
  /\ \E e \in ParamEquipamentos, corpo \in CorposBaixa :
       LET cid == ParseInt(corpo.correia_id)
           qtd == ParseInt(corpo.quantidade)
           b0  == [ baixa[r] EXCEPT !.equipamento_id = e,
                                    !.corpo_correia_id = corpo.correia_id,
                                    !.corpo_quantidade = corpo.quantidade ]
       IN  baixa' = [ baixa EXCEPT ![r] =
             IF EntradaInvalida(cid, qtd)
               THEN [ b0 EXCEPT !.pc = "fim", !.resposta = QuantidadeInvalida ]
               ELSE [ b0 EXCEPT !.pc = "select", !.correia_id = cid.val,
                                !.quantidade = qtd.val ] ]
  /\ UNCHANGED << correias, consumo_correias, equipamentos, ordens, relogio,
                  pedidoOS, inicial, cadastro, conta >>

\* SELECT * FROM correias WHERE id = ?  and the two checks on the row.
BaixarSelect(r) ==
  /\ baixa[r].pc = "select"
  /\ LET b == baixa[r] IN
       baixa' = [ baixa EXCEPT ![r] =
         IF ~ ExisteCorreia(b.correia_id)
           THEN [ b EXCEPT !.pc = "fim", !.resposta = CorreiaNaoEncontrada ]
         ELSE IF Insuficiente(correias[b.correia_id].quantidade, b.quantidade)
           THEN [ b EXCEPT !.pc = "fim", !.resposta = EstoqueInsuficiente ]
         ELSE [ b EXCEPT !.pc = "update" ] ]
  /\ UNCHANGED << correias, consumo_correias, equipamentos, ordens, relogio,
                  pedidoOS, inicial, cadastro, conta >>

\* registrarConsumoCorreia, first statement: the stock UPDATE.
RegistrarUpdate(r) ==
  /\ baixa[r].pc = "update"
  /\ correias' = UpdateQuantidade(correias, baixa[r].correia_id, baixa[r].quantidade)
  /\ baixa' = [ baixa EXCEPT ![r].pc = "insert" ]
  /\ UNCHANGED << consumo_correias, equipamentos, ordens, relogio,
                  pedidoOS, inicial, cadastro, conta >>

\* registrarConsumoCorreia, second statement: the history INSERT; then redirect.
RegistrarInsert(r) ==
  /\ baixa[r].pc = "insert"
  /\ consumo_correias' = InsertConsumo(consumo_correias, baixa[r].equipamento_id,
                           baixa[r].correia_id, baixa[r].quantidade, relogio)
  /\ baixa' = [ baixa EXCEPT ![r].pc = "fim", ![r].resposta = Redirect ]
  /\ UNCHANGED << correias, equipamentos, ordens, relogio, pedidoOS, inicial, cadastro, conta >>

\* The pending statement is rejected by the store: the handler's catch block.
BaixarErro(r) ==
  /\ baixa[r].pc \in { "select", "update", "insert" }
  /\ baixa' = [ baixa EXCEPT ![r].pc = "fim", ![r].resposta = ErroDebitar ]
  /\ UNCHANGED << correias, consumo_correias, equipamentos, ordens, relogio,
                  pedidoOS, inicial, cadastro, conta >>

\* CURRENT_TIMESTAMP advances.
Tick ==
  /\ relogio < MaxRelogio
  /\ relogio' = relogio + 1
  /\ UNCHANGED << correias, consumo_correias, equipamentos, ordens,
                  baixa, pedidoOS, inicial, cadastro, conta >>

NextBaixa ==
  \/ \E r \in Baixas : BaixarCorreia(r)
  \/ \E r \in Baixas : BaixarSelect(r)
  \/ \E r \in Baixas : RegistrarUpdate(r)
  \/ \E r \in Baixas : RegistrarInsert(r)
  \/ \E r \in Baixas : BaixarErro(r)

SpecBaixa == Init /\ [][NextBaixa]_vars

\* ---------------------------------------------------------------- Ordens
\* `equipamento_id || null`, then stored in an INTEGER column: the empty field
\* becomes NULL, a numeric text becomes its number.
EquipamentoOuNull(campo) ==
  IF campo = Vazio THEN NULL ELSE ParseInt(campo).val

\* The order INSERT reusing the id of the newest order.
InsertOrdemMut(tab, e, sol, tipo, desc, agora) ==
  Append(tab, [ id |-> IF tab = << >> THEN 1 ELSE tab[Len(tab)].id,
                equipamento_id |-> e, solicitante |-> sol,
                tipo |-> tipo, descricao |-> desc, status |-> "aberta",
                aberta_em |-> agora, fechada_em |-> NULL, resultado |-> NULO ])

\* INSERT INTO ordens (equipamento_id, solicitante, tipo, descricao, status)
\* VALUES (?, ?, ?, ?, 'aberta'): id is AUTOINCREMENT (rows are never deleted),
\* aberta_em defaults to CURRENT_TIMESTAMP, fechada_em and resultado to NULL.
\* SQLite does not enforce the FOREIGN KEY (no PRAGMA foreign_keys is issued).
InsertOrdem(tab, e, sol, tipo, desc, agora) ==
  Append(tab, [ id |-> Len(tab) + 1, equipamento_id |-> e, solicitante |-> sol,
                tipo |-> tipo, descricao |-> desc, status |-> "aberta",
                aberta_em |-> agora, fechada_em |-> NULL, resultado |-> NULO ])

\* The closing UPDATE without its WHERE clause: every order is closed.
UpdateFecharMut(tab, id, res, agora) ==
  [ i \in DOMAIN tab |->
      [ tab[i] EXCEPT !.status = "fechada", !.resultado = res,
                      !.fechada_em = agora ] ]

\* The closing UPDATE toggling the status: a closed order is opened again.
UpdateFecharReabre(tab, id, res, agora) ==
  [ i \in DOMAIN tab |->
      IF tab[i].id = id
        THEN [ tab[i] EXCEPT !.status = IF @ = "aberta" THEN "fechada"
                                                        ELSE "aberta",
                             !.resultado = res, !.fechada_em = agora ]
        ELSE tab[i] ]

\* The closing UPDATE without fechada_em=CURRENT_TIMESTAMP.
UpdateFecharSemData(tab, id, res, agora) ==
  [ i \in DOMAIN tab |->
      IF tab[i].id = id
        THEN [ tab[i] EXCEPT !.status = "fechada", !.resultado = res ]
        ELSE tab[i] ]

\* UPDATE ordens SET status='fechada', resultado=?, fechada_em=CURRENT_TIMESTAMP
\* WHERE id=?
UpdateFechar(tab, id, res, agora) ==
  [ i \in DOMAIN tab |->
      IF tab[i].id = id
        THEN [ tab[i] EXCEPT !.status = "fechada", !.resultado = res,
                             !.fechada_em = agora ]
        ELSE tab[i] ]

\* POST /ordens: one INSERT, then the redirect.
AbrirOS ==
  /\ Len(ordens) < MaxOrdens
  /\ \E campo \in CorpoEquipamentos, sol \in Solicitantes, tipo \in Tipos,
        desc \in Descricoes :
       /\ ordens' = InsertOrdem(ordens, EquipamentoOuNull(campo), sol, tipo,
                                desc, relogio)
       /\ pedidoOS' = [ rota |-> "abrir",
                        equipamento_id |-> EquipamentoOuNull(campo),
                        id |-> NULL, resultado |-> NULO, resposta |-> Redirect ]
  /\ UNCHANGED << correias, consumo_correias, equipamentos, relogio, baixa,
                  inicial, cadastro, conta >>

\* POST /ordens whose INSERT the store rejects: the catch block.
AbrirOSErro ==
  /\ pedidoOS' = [ NenhumPedidoOS EXCEPT !.rota = "abrir",
                                         !.resposta = ErroCriarOS ]
  /\ UNCHANGED << correias, consumo_correias, equipamentos, ordens, relogio,
                  baixa, inicial, cadastro, conta >>

\* A Close that also takes one unit of every part out of stock.
FecharOSDebita ==
  /\ \E id \in ParamOrdens, res \in CorpoResultados :
       /\ ordens' = UpdateFechar(ordens, id, res, relogio)
       /\ pedidoOS' = [ rota |-> "fechar", equipamento_id |-> NULL, id |-> id,
                        resultado |-> res, resposta |-> Redirect ]
  /\ correias' = [ i \in DOMAIN correias |->
                     [ correias[i] EXCEPT !.quantidade = Menos(@, 1) ] ]
  /\ UNCHANGED << consumo_correias, equipamentos, relogio, baixa,
                  inicial, cadastro, conta >>

\* POST /ordens/:id/fechar: one UPDATE, then the redirect.
FecharOS ==
  /\ \E id \in ParamOrdens, res \in CorpoResultados :
       /\ ordens' = UpdateFechar(ordens, id, res, relogio)
       /\ pedidoOS' = [ rota |-> "fechar", equipamento_id |-> NULL, id |-> id,
                        resultado |-> res, resposta |-> Redirect ]
  /\ UNCHANGED << correias, consumo_correias, equipamentos, relogio, baixa,
                  inicial, cadastro, conta >>

\* POST /ordens/:id/fechar whose UPDATE the store rejects: the catch block.
FecharOSErro ==
  /\ pedidoOS' = [ NenhumPedidoOS EXCEPT !.rota = "fechar",
                                         !.resposta = ErroFecharOS ]
  /\ UNCHANGED << correias, consumo_correias, equipamentos, ordens, relogio,
                  baixa, inicial, cadastro, conta >>

\* ---------------------------------------------------------------- Correias
\* Requests taken so far that add to the state: the orders opened, the Debits,
\* saves and equipment deletes begun, the /correias POST requests served.
Carga ==
  atendidos + Len(ordens)
  + Cardinality({ r \in Baixas : baixa[r].pc # "livre" })
  + Cardinality({ s \in Salvamentos : assoc[s].pc # "livre" })
  + ( IF exclusao.pc # "livre" THEN 1 ELSE 0 )

\* A new request is given the first free position.
PrimeiraLivre(pedidos, r) ==
  /\ pedidos[r].pc = "livre"
  /\ \A q \in DOMAIN pedidos : q < r => pedidos[q].pc # "livre"

\* parseInt(quantidade || 0, 10): an absent or empty field counts as 0.
QuantidadeOuZero(campo) == IF campo = Vazio THEN Num(0) ELSE ParseInt(campo)

\* The value SQLite stores for a bound JavaScript number: NaN is stored as NULL.
Guardado(n) == IF n.nan THEN QtdNull ELSE n.val

\* INSERT INTO correias (nome, modelo, medida, quantidade) VALUES (?, ?, ?, ?)
InsertCorreia(tab, id, nome, q) ==
  [ i \in DOMAIN tab \cup { id } |->
      IF i = id THEN [ nome |-> nome, quantidade |-> q ] ELSE tab[i] ]

\* UPDATE correias SET nome=?, modelo=?, medida=?, quantidade=? WHERE id=?
UpdateCorreia(tab, id, nome, q) ==
  [ i \in DOMAIN tab |->
      IF i = id THEN [ nome |-> nome, quantidade |-> q ] ELSE tab[i] ]

\* DELETE FROM correias WHERE id = ?
DeleteCorreia(tab, id) == [ i \in DOMAIN tab \ { id } |-> tab[i] ]

\* POST /correias/novo: one INSERT, then the redirect.  The id is the
\* AUTOINCREMENT one: larger than every id given before.
CorreiasNovo ==
  /\ Carga < MaxCarga
  /\ \E corpo \in CorposCorreia :
       /\ correias' = InsertCorreia(correias, seq_correias + 1, corpo.nome,
                                    Guardado(QuantidadeOuZero(corpo.quantidade)))
       /\ pedidoCorreia' = [ rota |-> "novo", id |-> NULL, corpo |-> corpo,
                             resposta |-> Redirect ]
  /\ seq_correias' = seq_correias + 1
  /\ atendidos' = atendidos + 1
  /\ UNCHANGED << consumo_correias, equipamentos, ordens, relogio, baixa,
                  pedidoOS, inicial, equipamentos_nome, correias_equipamentos,
                  assoc, exclusao, relatorio, conta >>

\* POST /correias/:id/editar: one UPDATE, then the redirect.
CorreiasEditar ==
  /\ Carga < MaxCarga
  /\ \E id \in ParamCorreias, corpo \in CorposCorreia :
       /\ correias' = UpdateCorreia(correias, id, corpo.nome,
                                    Guardado(QuantidadeOuZero(corpo.quantidade)))
       /\ pedidoCorreia' = [ rota |-> "editar", id |-> id, corpo |-> corpo,
                             resposta |-> Redirect ]
  /\ atendidos' = atendidos + 1
  /\ UNCHANGED << consumo_correias, equipamentos, ordens, relogio, baixa,
                  pedidoOS, inicial, seq_correias, equipamentos_nome,
                  correias_equipamentos, assoc, exclusao, relatorio, conta >>

\* POST /correias/:id/delete: one DELETE, then the redirect.
CorreiasDelete ==
  /\ Carga < MaxCarga
  /\ \E id \in ParamCorreias :
       /\ correias' = DeleteCorreia(correias, id)
       /\ pedidoCorreia' = [ rota |-> "delete", id |-> id, corpo |-> CorpoAusente,
                             resposta |-> Redirect ]
  /\ atendidos' = atendidos + 1
  /\ UNCHANGED << consumo_correias, equipamentos, ordens, relogio, baixa,
                  pedidoOS, inicial, seq_correias, equipamentos_nome,
                  correias_equipamentos, assoc, exclusao, relatorio, conta >>

\* The catch block of each /correias POST route.
ErroCorreia(rota) ==
  CASE rota = "novo" -> ErroCriarCorreia
    [] rota = "editar" -> ErroAtualizarCorreia
    [] rota = "delete" -> ErroDeletarCorreia

\* A /correias POST request whose statement the store rejects.
CorreiasErro ==
  /\ Carga < MaxCarga
  /\ \E rota \in { "novo", "editar", "delete" } :
       pedidoCorreia' = [ NenhumPedidoCorreia EXCEPT !.rota = rota,
                                                     !.resposta = ErroCorreia(rota) ]
  /\ atendidos' = atendidos + 1
  /\ UNCHANGED << correias, consumo_correias, equipamentos, ordens, relogio,
                  baixa, pedidoOS, inicial, seq_correias, equipamentos_nome,
                  correias_equipamentos, assoc, exclusao, relatorio, conta >>

\* ---------------------------------------------------------------- Associacoes
\* DELETE FROM correias_equipamentos WHERE equipamento_id = ?
DeleteAssociacoes(tab, e) == SelectSeq(tab, LAMBDA row : row.equipamento_id # e)

\* parseInt(req.body[`qtd_${cid}`] || 1, 10)
QuantidadeOuUm(campo) == IF campo = Vazio THEN Num(1) ELSE ParseInt(campo)

\* INSERT INTO correias_equipamentos (equipamento_id, correia_id,
\* quantidade_usada) VALUES (?, ?, ?); the INTEGER column takes the number
\* that the text of cid spells.
InsertAssociacao(tab, e, cid, q) ==
  Append(tab, [ equipamento_id |-> e, correia_id |-> ParseInt(cid).val,
                quantidade_usada |-> Guardado(q) ])

\* POST /equipamentos/:id/correias up to the end of its first statement, the
\* DELETE; with nothing checked the loop is empty and the redirect follows.
SalvarDelete(s) ==
  /\ assoc[s].pc = "livre"
  /\ Carga < MaxCarga
  /\ \E e \in ParamSalvar, corpo \in CorposSalvar :
       /\ correias_equipamentos' = DeleteAssociacoes(correias_equipamentos, e)
       /\ assoc' = [ assoc EXCEPT ![s] =
            [ pc |-> IF corpo.correia = << >> THEN "fim" ELSE "insert",
              equipamento_id |-> e, correiaIds |-> corpo.correia,
              qtds |-> corpo.qtds, k |-> 1,
              resposta |-> IF corpo.correia = << >> THEN Redirect
                                                    ELSE SemResposta ] ]
  /\ UNCHANGED << correias, consumo_correias, equipamentos, ordens, relogio,
                  baixa, pedidoOS, inicial, seq_correias, equipamentos_nome,
                  exclusao, pedidoCorreia, atendidos, relatorio, conta >>

\* One turn of the loop: the INSERT of the k-th checked part; after the last
\* one, the redirect.
SalvarInsert(s) ==
  /\ assoc[s].pc = "insert"
  /\ LET a == assoc[s] IN
       /\ correias_equipamentos' =
            InsertAssociacao(correias_equipamentos, a.equipamento_id,
                             a.correiaIds[a.k], QuantidadeOuUm(a.qtds[a.k]))
       /\ assoc' = [ assoc EXCEPT ![s] =
            IF a.k = Len(a.correiaIds)
              THEN [ a EXCEPT !.pc = "fim", !.resposta = Redirect ]
              ELSE [ a EXCEPT !.k = a.k + 1 ] ]
  /\ UNCHANGED << correias, consumo_correias, equipamentos, ordens, relogio,
                  baixa, pedidoOS, inicial, seq_correias, equipamentos_nome,
                  exclusao, pedidoCorreia, atendidos, relatorio, conta >>

\* The pending INSERT is rejected by the store: the handler's catch block.
SalvarErro(s) ==
  /\ assoc[s].pc = "insert"
  /\ assoc' = [ assoc EXCEPT ![s].pc = "fim",
                             ![s].resposta = ErroSalvarAssociacoes ]
  /\ UNCHANGED << correias, consumo_correias, equipamentos, ordens, relogio,
                  baixa, pedidoOS, inicial, seq_correias, equipamentos_nome,
                  correias_equipamentos, exclusao, pedidoCorreia, atendidos,
                  relatorio, conta >>

NextSalvar ==
  \/ \E s \in Salvamentos : SalvarDelete(s)
  \/ \E s \in Salvamentos : SalvarInsert(s)
  \/ \E s \in Salvamentos : SalvarErro(s)

SpecSalvar == Init /\ [][NextSalvar]_vars

\* ---------------------------------------------------------------- Equipamentos
\* The equipment DELETE without its WHERE clause.
DeleteEquipamentoTodos(tab, id) == { }

\* DELETE FROM equipamentos WHERE id = ?
DeleteEquipamento(tab, id) == tab \ { id }

\* POST /equipamentos/:id/delete up to the end of its first statement, the
\* SELECT, and the test of the row.
ExcluirSelect ==
  /\ exclusao.pc = "livre"
  /\ Carga < MaxCarga
  /\ \E id \in ParamExcluir :
       exclusao' = IF id \notin equipamentos
                     THEN [ pc |-> "fim", id |-> id,
                            resposta |-> EquipamentoNaoEncontrado ]
                     ELSE [ pc |-> "delete", id |-> id, resposta |-> SemResposta ]
  /\ UNCHANGED << correias, consumo_correias, equipamentos, ordens, relogio,
                  baixa, pedidoOS, inicial, seq_correias, equipamentos_nome,
                  correias_equipamentos, assoc, pedidoCorreia, atendidos,
                  relatorio, conta >>

\* The DELETE, then the redirect.
ExcluirDelete ==
  /\ exclusao.pc = "delete"
  /\ equipamentos' = DeleteEquipamento(equipamentos, exclusao.id)
  /\ equipamentos_nome' = [ e \in equipamentos' |-> equipamentos_nome[e] ]
  /\ exclusao' = [ exclusao EXCEPT !.pc = "fim", !.resposta = Redirect ]
  /\ UNCHANGED << correias, consumo_correias, ordens, relogio, baixa, pedidoOS,
                  inicial, seq_correias, correias_equipamentos, assoc,
                  pedidoCorreia, atendidos, relatorio, conta >>

\* The pending DELETE is rejected by the store: the handler's catch block.
ExcluirErro ==
  /\ exclusao.pc = "delete"
  /\ exclusao' = [ exclusao EXCEPT !.pc = "fim",
                                   !.resposta = ErroDeletarEquipamento ]
  /\ UNCHANGED << correias, consumo_correias, equipamentos, ordens, relogio,
                  baixa, pedidoOS, inicial, seq_correias, equipamentos_nome,
                  correias_equipamentos, assoc, pedidoCorreia, atendidos,
                  relatorio, conta >>

\* ---------------------------------------------------------------- Relatorio
\* strftime('%Y-%m', data): the month of a time; the clock counts half months.
Mes(t) == t \div 2

\* LEFT JOIN equipamentos e ON e.id = cc.equipamento_id, column e.nome.
NomeEquipamento(e) ==
  IF e \in DOMAIN equipamentos_nome THEN equipamentos_nome[e] ELSE NULO

\* LEFT JOIN correias c ON c.id = cc.correia_id, column c.nome.
NomeCorreia(c) == IF c \in DOMAIN correias THEN correias[c].nome ELSE NULO

\* The joined rows that WHERE strftime('%Y-%m', cc.data) = mes keeps.
LinhasDoMes(tab, mes) ==
  SelectSeq(tab, LAMBDA row : Mes(row.data) = mes)

\* SUM(cc.quantidade) over the rows of one group.
RECURSIVE SomaGrupo(_, _, _)
SomaGrupo(tab, ne, nc) ==
  IF tab = << >> THEN 0
  ELSE ( IF NomeEquipamento(Head(tab).equipamento_id) = ne
            /\ NomeCorreia(Head(tab).correia_id) = nc
           THEN Head(tab).quantidade ELSE 0 )
       + SomaGrupo(Tail(tab), ne, nc)

\* GROUP BY equipamento, correia: the names are the aliases of e.nome and
\* c.nome, so a group is a pair of names.
Grupos(tab) ==
  { [ equipamento |-> NomeEquipamento(tab[j].equipamento_id),
      correia |-> NomeCorreia(tab[j].correia_id),
      total |-> SomaGrupo(tab, NomeEquipamento(tab[j].equipamento_id),
                          NomeCorreia(tab[j].correia_id)) ] :
    j \in DOMAIN tab }

\* Place of a name in SQLite's order of values: NULL first, then the texts
\* byte by byte.
Ordem(nome) ==
  CASE nome = NULO -> 0
    [] nome = "A-32" -> 1
    [] nome = "B-45" -> 2
    [] nome = "Esteira" -> 3
    [] nome = "Prensa" -> 4

\* ORDER BY equipamento, correia
Antes(x, y) ==
  \/ Ordem(x.equipamento) < Ordem(y.equipamento)
  \/ /\ Ordem(x.equipamento) = Ordem(y.equipamento)
     /\ Ordem(x.correia) < Ordem(y.correia)

RECURSIVE Ordenado(_)
Ordenado(g) ==
  IF g = { } THEN << >>
  ELSE LET m == CHOOSE x \in g : \A y \in g \ { x } : Antes(x, y)
       IN  << m >> \o Ordenado(g \ { m })

\* The whole SELECT of the report.
Relatorio(tab, mes) == Ordenado(Grupos(LinhasDoMes(tab, mes)))

\* req.query.mes || (new Date()).toISOString().slice(0,7)
MesPedido(param) == IF param = NULL THEN Mes(relogio) ELSE param

\* GET /correias/relatorio: one SELECT, then the page.
GetRelatorio ==
  /\ \E param \in ParamMes :
       relatorio' = [ mes |-> MesPedido(param),
                      rel |-> Relatorio(consumo_correias, MesPedido(param)),
                      resposta |-> Renderizado ]
  /\ UNCHANGED << correias, consumo_correias, equipamentos, ordens, relogio,
                  baixa, pedidoOS, inicial, seq_correias, equipamentos_nome,
                  correias_equipamentos, assoc, exclusao, pedidoCorreia,
                  atendidos, conta >>

\* GET /correias/relatorio whose SELECT the store rejects: the catch block.
GetRelatorioErro ==
  /\ relatorio' = [ NenhumRelatorio EXCEPT !.resposta = ErroRelatorio ]
  /\ UNCHANGED << correias, consumo_correias, equipamentos, ordens, relogio,
                  baixa, pedidoOS, inicial, seq_correias, equipamentos_nome,
                  correias_equipamentos, assoc, exclusao, pedidoCorreia,
                  atendidos, conta >>

\* ---------------------------------------------------------------- Conta
\* uuidv4() of the n-th token issued: a value no other token has.
Uuid(n) == n

\* new Date(Date.now() + 60 * 60 * 1000): one hour is less than a unit of the
\* clock, so the token expires as soon as the clock moves.
ExpiraEm(agora) == agora

\* SELECT id, usuario FROM usuarios WHERE usuario = ?
UsuariosChamados(nome) == { u \in DOMAIN usuarios : usuarios[u].usuario = nome }

\* POST /forgot: the SELECT of the user and the INSERT of a fresh token (no
\* route removes a user here, so nothing comes between the two statements).
Forgot ==
  /\ seq_tokens < MaxTokens
  /\ \E nome \in CorpoUsuarios :
       IF UsuariosChamados(nome) = { }
         THEN UNCHANGED << password_tokens, seq_tokens >>
         ELSE /\ password_tokens' =
                   Append(password_tokens,
                          [ usuario_id |-> CHOOSE u \in UsuariosChamados(nome) : TRUE,
                            token |-> Uuid(seq_tokens + 1),
                            expires_at |-> ExpiraEm(relogio) ])
              /\ seq_tokens' = seq_tokens + 1
  /\ UNCHANGED << correias, consumo_correias, equipamentos, ordens, relogio,
                  baixa, pedidoOS, inicial, cadastro, usuarios, reset, acesso >>

\* SELECT usuario_id, expires_at FROM password_tokens WHERE token = ?
LinhasDoToken(tab, token) == SelectSeq(tab, LAMBDA row : row.token = token)

\* new Date(row.expires_at) < new Date()
Expirado(row, agora) == row.expires_at < agora

\* UPDATE usuarios SET senha = ? WHERE id = ?
UpdateSenha(tab, id, hashed) ==
  [ u \in DOMAIN tab |-> IF u = id THEN [ tab[u] EXCEPT !.senha = hashed ]
                                   ELSE tab[u] ]

\* DELETE FROM password_tokens WHERE token = ?
DeleteToken(tab, token) == SelectSeq(tab, LAMBDA row : row.token # token)

\* POST /reset/:token up to the end of its first statement, the SELECT, and
\* the two tests of the row.
ResetSelect(r) ==
  /\ reset[r].pc = "livre"
  /\ \E token \in ParamTokens, senha \in CorpoSenhas :
       LET linhas == LinhasDoToken(password_tokens, token)
           p0 == [ reset[r] EXCEPT !.token = token, !.senha = senha ]
       IN  reset' = [ reset EXCEPT ![r] =
             IF linhas = << >>
               THEN [ p0 EXCEPT !.pc = "fim", !.resposta = TokenInvalido ]
             ELSE IF Expirado(linhas[1], relogio)
               THEN [ p0 EXCEPT !.pc = "fim", !.resposta = TokenExpirado ]
             ELSE [ p0 EXCEPT !.pc = "update",
                              !.usuario_id = linhas[1].usuario_id ] ]
  /\ UNCHANGED << correias, consumo_correias, equipamentos, ordens, relogio,
                  baixa, pedidoOS, inicial, cadastro, usuarios,
                  password_tokens, seq_tokens, acesso >>

\* bcrypt.hash, then the UPDATE of the password.
ResetUpdate(r) ==
  /\ reset[r].pc = "update"
  /\ usuarios' = UpdateSenha(usuarios, reset[r].usuario_id,
                             HashDe(reset[r].senha))
  /\ reset' = [ reset EXCEPT ![r].pc = "delete" ]
  /\ UNCHANGED << correias, consumo_correias, equipamentos, ordens, relogio,
                  baixa, pedidoOS, inicial, cadastro, password_tokens,
                  seq_tokens, acesso >>

\* The DELETE of the token, then the page that confirms the change.
ResetDelete(r) ==
  /\ reset[r].pc = "delete"
  /\ password_tokens' = DeleteToken(password_tokens, reset[r].token)
  /\ reset' = [ reset EXCEPT ![r].pc = "fim", ![r].resposta = SenhaAtualizada ]
  /\ UNCHANGED << correias, consumo_correias, equipamentos, ordens, relogio,
                  baixa, pedidoOS, inicial, cadastro, usuarios, seq_tokens, acesso >>

\* The pending statement is rejected by the store: the handler's catch block.
ResetErro(r) ==
  /\ reset[r].pc \in { "update", "delete" }
  /\ reset' = [ reset EXCEPT ![r].pc = "fim", ![r].resposta = ErroInterno ]
  /\ UNCHANGED << correias, consumo_correias, equipamentos, ordens, relogio,
                  baixa, pedidoOS, inicial, cadastro, usuarios,
                  password_tokens, seq_tokens, acesso >>

NextReset ==
  \/ Forgot
  \/ \E r \in Resets : ResetSelect(r)
  \/ \E r \in Resets : ResetUpdate(r)
  \/ \E r \in Resets : ResetDelete(r)
  \/ \E r \in Resets : ResetErro(r)
  \/ Tick

SpecReset == Init /\ [][NextReset]_vars

\* Part routes and Debit requests, MaxCarga requests in all.
NextEstoque ==
  \/ CorreiasNovo
  \/ CorreiasEditar
  \/ CorreiasDelete
  \/ CorreiasErro
  \/ \E r \in Baixas : Carga < MaxCarga /\ BaixarCorreia(r)
  \/ \E r \in Baixas : BaixarSelect(r)
  \/ \E r \in Baixas : RegistrarUpdate(r)
  \/ \E r \in Baixas : RegistrarInsert(r)
  \/ \E r \in Baixas : BaixarErro(r)

SpecEstoque == Init /\ [][NextEstoque]_vars

\* Every route that writes the stock, the history, the parts of an equipment,
\* the equipment or the orders, served while Carga is below MaxCarga.
NextGeral ==
  \/ \E r \in Baixas :
       Carga < MaxCarga /\ PrimeiraLivre(baixa, r) /\ BaixarCorreia(r)
  \/ \E r \in Baixas : BaixarSelect(r)
  \/ \E r \in Baixas : RegistrarUpdate(r)
  \/ \E r \in Baixas : RegistrarInsert(r)
  \/ \E r \in Baixas : BaixarErro(r)
  \/ CorreiasNovo
  \/ CorreiasEditar
  \/ CorreiasDelete
  \/ CorreiasErro
  \/ \E s \in Salvamentos : PrimeiraLivre(assoc, s) /\ SalvarDelete(s)
  \/ \E s \in Salvamentos : SalvarInsert(s)
  \/ \E s \in Salvamentos : SalvarErro(s)
  \/ ExcluirSelect
  \/ ExcluirDelete
  \/ ExcluirErro
  \/ Carga < MaxCarga /\ AbrirOS
  \/ Carga < MaxCarga /\ FecharOS

\* Every part starts with the largest stock.
InitCheio == Init /\ \A i \in DOMAIN correias : correias[i].quantidade = MaxQtd

SpecGeral == InitCheio /\ [][NextGeral]_vars

NextOrdens ==
  \/ AbrirOS
  \/ AbrirOSErro
  \/ FecharOS
  \/ FecharOSErro
  \/ Tick

SpecOrdens == Init /\ [][NextOrdens]_vars

\* ---------------------------------------------------------------- ledger sums
\* Sum of the quantities of the Consumption Records of part cid.
RECURSIVE SomaConsumo(_, _)
SomaConsumo(tab, cid) ==
  IF tab = << >> THEN 0
  ELSE (IF Head(tab).correia_id = cid THEN Head(tab).quantidade ELSE 0)
         + SomaConsumo(Tail(tab), cid)

\* Sum of the quantities of the debits of part cid that were answered with the
\* redirect, over the requests in rs.
RECURSIVE SomaSucesso(_, _)
SomaSucesso(rs, cid) ==
  IF rs = { } THEN 0
  ELSE LET r == CHOOSE x \in rs : TRUE
       IN  (IF baixa[r].resposta = Redirect /\ baixa[r].correia_id = cid
              THEN baixa[r].quantidade ELSE 0)
           + SomaSucesso(rs \ { r }, cid)

\* ---------------------------------------------------------------- report runs
\* The Consumption Records some Debits left: up to MaxRegistros of them, for
\* the equipment and parts of the start, in the order of their times.
RegistrosNoInicio ==
  LET Registro == [ equipamento_id : EquipamentosNoInicio,
                    correia_id : CorreiasNoInicio,
                    quantidade : 1 .. MaxQtd, data : DatasNoInicio ]
      Tabelas  == UNION { [ 1 .. n -> Registro ] : n \in 0 .. MaxRegistros }
  IN  { t \in Tabelas :
          \A j \in 1 .. Len(t) - 1 : t[j].data <= t[j + 1].data }

\* The store after some Debits were served, at the time of the last one, with
\* the equipment named in any way; no request is under way.
InitRelatorio ==
  /\ consumo_correias \in RegistrosNoInicio
  /\ correias = [ i \in CorreiasNoInicio |->
                    [ nome |-> NomeNoInicio(i), quantidade |-> 0 ] ]
  /\ inicial = [ i \in CorreiasNoInicio |-> SomaConsumo(consumo_correias, i) ]
  /\ relogio = IF consumo_correias = << >> THEN 0
               ELSE consumo_correias[Len(consumo_correias)].data
  /\ equipamentos = EquipamentosNoInicio
  /\ equipamentos_nome \in [ EquipamentosNoInicio -> NomesEquipamento ]
  /\ ordens = << >>
  /\ baixa = [ r \in Baixas |-> BaixaLivre ]
  /\ pedidoOS = NenhumPedidoOS
  /\ seq_correias = 2
  /\ correias_equipamentos = << >>
  /\ assoc = [ s \in Salvamentos |-> SalvarLivre ]
  /\ exclusao = ExclusaoLivre
  /\ pedidoCorreia = NenhumPedidoCorreia
  /\ atendidos = 0
  /\ relatorio = NenhumRelatorio
  /\ usuarios = UsuariosNoInicio
  /\ password_tokens = << >>
  /\ seq_tokens = 0
  /\ reset = [ r \in Resets |-> ResetLivre ]
  /\ seq_usuarios = 2
  /\ sessoes = [ s \in Sessoes |-> SessaoVazia ]
  /\ req = NenhumPedido
  /\ chegadas = 0

\* The report, asked for any number of times; an equipment may be deleted.
NextRelatorio ==
  \/ GetRelatorio
  \/ GetRelatorioErro
  \/ ExcluirSelect
  \/ ExcluirDelete

SpecRelatorio == InitRelatorio /\ [][NextRelatorio]_vars

\* ---------------------------------------------------------------- Sessao
\* A path is written as the sequence of its pieces, cut at every "/" and
\* wherever a prefix the session middleware tests for ends, so that
\* String.startsWith is the prefix order of sequences.  A piece that begins
\* with ":" stands for any value of that route parameter.
StartsWith(url, prefixo) ==
  Len(prefixo) <= Len(url) /\ SubSeq(url, 1, Len(prefixo)) = prefixo

\* The files under public/ (served by express.static before any session test).
ArquivosPublicos == { << "/css", "/app.css" >> }

rotasAbertas == { << "/login" >>, << "/forgot" >>, << "/reset" >> }

\* !!req.session.usuario
Logado(sess) == sess.usuario # NULO /\ sess.usuario # ""

\* The global middleware without its test of the session.
ProtecaoSemSessao(url, sess) == Segue

\* The global middleware: static prefixes and open routes pass, and so does a
\* logged-in session; everything else is sent to the login page.
Protecao(url, sess) ==
  IF \E pre \in { << "/css" >>, << "/js" >>, << "/img" >>, << "/uploads" >> } :
       StartsWith(url, pre)
    THEN Segue
  ELSE IF \E r \in rotasAbertas : StartsWith(url, r) THEN Segue
  ELSE IF ~ Logado(sess) THEN RedirectLogin
  ELSE Segue

authRequired(sess) == IF ~ Logado(sess) THEN RedirectLogin ELSE Segue

\* requireRole where every role passes.
requireRoleQualquer(role, sess) ==
  IF ~ Logado(sess) THEN RedirectLogin ELSE Segue

\* requireRole(role) for a role given as a string (no route passes an array).
requireRole(role, sess) ==
  IF ~ Logado(sess) THEN RedirectLogin
  ELSE IF sess.role = "admin" THEN Segue
  ELSE IF sess.role = role THEN Segue
  ELSE AcessoNegado

\* The routes, in the order they are registered; mw names the middlewares of
\* the route: none, authRequired, or authRequired and requireRole('admin').
Rotas ==
  { [ method |-> "POST", path |-> << "/login" >>, mw |-> "-",
      nome |-> "POST /login" ],
    [ method |-> "GET", path |-> << "/logout" >>, mw |-> "-",
      nome |-> "GET /logout" ],
    [ method |-> "POST", path |-> << "/forgot" >>, mw |-> "-",
      nome |-> "POST /forgot" ],
    [ method |-> "POST", path |-> << "/reset", "/:token" >>, mw |-> "-",
      nome |-> "POST /reset/:token" ],
    [ method |-> "GET", path |-> << "/users" >>, mw |-> "admin",
      nome |-> "GET /users" ],
    [ method |-> "POST", path |-> << "/users", "/new" >>, mw |-> "admin",
      nome |-> "POST /users/new" ],
    [ method |-> "POST", path |-> << "/users", "/:id", "/edit" >>,
      mw |-> "admin", nome |-> "POST /users/:id/edit" ],
    [ method |-> "POST", path |-> << "/users", "/:id", "/delete" >>,
      mw |-> "admin", nome |-> "POST /users/:id/delete" ],
    [ method |-> "POST", path |-> << "/equipamentos", "/:id", "/delete" >>,
      mw |-> "auth", nome |-> "POST /equipamentos/:id/delete" ],
    [ method |-> "POST", path |-> << "/correias", "/novo" >>, mw |-> "auth",
      nome |-> "POST /correias/novo" ],
    [ method |-> "POST", path |-> << "/correias", "/:id", "/editar" >>,
      mw |-> "auth", nome |-> "POST /correias/:id/editar" ],
    [ method |-> "POST", path |-> << "/correias", "/:id", "/delete" >>,
      mw |-> "auth", nome |-> "POST /correias/:id/delete" ],
    [ method |-> "POST", path |-> << "/equipamentos", "/:id", "/correias" >>,
      mw |-> "auth", nome |-> "POST /equipamentos/:id/correias" ],
    [ method |-> "POST",
      path |-> << "/equipamentos", "/:id", "/baixar-correia" >>,
      mw |-> "auth", nome |-> "POST /equipamentos/:id/baixar-correia" ],
    [ method |-> "POST", path |-> << "/ordens" >>, mw |-> "auth",
      nome |-> "POST /ordens" ],
    [ method |-> "POST", path |-> << "/ordens", "/:id", "/fechar" >>,
      mw |-> "auth", nome |-> "POST /ordens/:id/fechar" ],
    [ method |-> "GET", path |-> << "/api", "/ordens" >>, mw |-> "-",
      nome |-> "GET /api/ordens" ] }

\* express.static, the global middleware, the router and the middlewares of
\* the route matched, up to the call of the handler: the response, or
\* EmAtendimento with the route whose handler runs.
Encaminhar(s, method, url) ==
  LET sess == sessoes[s]
      achadas == { r \in Rotas : r.method = method /\ r.path = url }
      p0 == [ session |-> s, method |-> method, path |-> url, rota |-> "-",
              res |-> SemResposta ]
  IN  IF method = "GET" /\ url \in ArquivosPublicos
        THEN [ p0 EXCEPT !.res = "200 file" ]
      ELSE IF Protecao(url, sess) # Segue
        THEN [ p0 EXCEPT !.res = Protecao(url, sess) ]
      ELSE IF achadas = { }
        THEN [ p0 EXCEPT !.res = "404" ]
      ELSE LET r == CHOOSE x \in achadas : TRUE
           IN  IF r.mw # "-" /\ authRequired(sess) # Segue
                 THEN [ p0 EXCEPT !.res = authRequired(sess) ]
               ELSE IF r.mw = "admin" /\ requireRole("admin", sess) # Segue
                 THEN [ p0 EXCEPT !.res = requireRole("admin", sess) ]
               ELSE [ p0 EXCEPT !.rota = r.nome, !.res = EmAtendimento ]

\* A request comes in and goes through the middlewares; it is answered there
\* or handed to the handler of its route.  Its method and path are those of a
\* route, of a file under public/, or of no route at all.
Chega ==
  /\ chegadas < MaxPedidos
  /\ \E s \in Sessoes :
       \E p \in { [ method |-> r.method, path |-> r.path ] : r \in Rotas }
                  \cup { [ method |-> "GET", path |-> a ] :
                           a \in ArquivosPublicos }
                  \cup { [ method |-> "POST", path |-> << "/nada" >> ] } :
         req' = Encaminhar(s, p.method, p.path)
  /\ chegadas' = chegadas + 1
  /\ UNCHANGED << correias, consumo_correias, equipamentos, ordens, relogio,
                  baixa, pedidoOS, inicial, cadastro, usuarios,
                  password_tokens, seq_tokens, reset, seq_usuarios, sessoes >>

\* The handler of route nome is called for the request that came in last.
Admitido(nome) == req.res = EmAtendimento /\ req.rota = nome

\* req.body of POST /login; there is no user "bia".
CorposLogin ==
  { [ usuario |-> "ana", senha |-> "senha0" ],
    [ usuario |-> "rui", senha |-> "senha0" ],
    [ usuario |-> "ana", senha |-> "errada" ],
    [ usuario |-> "bia", senha |-> "senha0" ] }

\* POST /login: the SELECT of the user, bcrypt.compare (the hash stored is
\* that of the password given), and the session filled from the row read.
Login ==
  /\ Admitido("POST /login")
  /\ \E corpo \in CorposLogin :
       LET achados == UsuariosChamados(corpo.usuario)
           u == CHOOSE x \in achados : TRUE
       IN  IF achados = { } \/ usuarios[u].senha # HashDe(corpo.senha)
             THEN /\ req' = [ req EXCEPT !.res = "Usuario ou senha incorretos." ]
                  /\ UNCHANGED sessoes
             ELSE /\ sessoes' = [ sessoes EXCEPT ![req.session] =
                       [ usuario |-> usuarios[u].usuario, userId |-> u,
                         role |-> usuarios[u].role ] ]
                  /\ req' = [ req EXCEPT !.res = "redirect /" ]
  /\ UNCHANGED << correias, consumo_correias, equipamentos, ordens, relogio,
                  baixa, pedidoOS, inicial, cadastro, usuarios,
                  password_tokens, seq_tokens, reset, seq_usuarios, chegadas >>

\* GET /logout: req.session.destroy, then the login page.
Logout ==
  /\ Admitido("GET /logout")
  /\ sessoes' = [ sessoes EXCEPT ![req.session] = SessaoVazia ]
  /\ req' = [ req EXCEPT !.res = RedirectLogin ]
  /\ UNCHANGED << correias, consumo_correias, equipamentos, ordens, relogio,
                  baixa, pedidoOS, inicial, cadastro, usuarios,
                  password_tokens, seq_tokens, reset, seq_usuarios, chegadas >>

\* GET /users, GET /api/ordens: SELECTs and a page or a JSON document.
Ler ==
  /\ \E nome \in { "GET /users", "GET /api/ordens" } : Admitido(nome)
  /\ req' = [ req EXCEPT !.res = "200" ]
  /\ UNCHANGED << correias, consumo_correias, equipamentos, ordens, relogio,
                  baixa, pedidoOS, inicial, cadastro, usuarios,
                  password_tokens, seq_tokens, reset, seq_usuarios, sessoes,
                  chegadas >>

\* ---------------------------------------------------------------- Usuarios
\* req.body of POST /users/new: "ana" is taken; the last has no password.
CorposUsuario ==
  { [ usuario |-> "bia", senha |-> "s3", nome |-> "", role |-> "" ],
    [ usuario |-> "bia", senha |-> "s3", nome |-> "Bia", role |-> "admin" ],
    [ usuario |-> "ana", senha |-> "s3", nome |-> "Ana", role |-> "admin" ],
    [ usuario |-> "bia", senha |-> "", nome |-> "Bia", role |-> "admin" ] }

\* req.body of POST /users/:id/edit.
CorposEdicao ==
  { [ nome |-> "Tec", role |-> "admin" ],
    [ nome |-> "Tec", role |-> "funcionario" ] }

\* req.params.id of POST /users/:id/edit; user 7 does not exist.
ParamUsuarios == { 1, 2, 3, 7 }

\* req.params.id of POST /users/:id/delete, as text.
ParamUsuariosTexto == { << "1" >>, << "2" >>, << "3" >>, << "2", "x" >>, << "x" >> }

\* INSERT INTO usuarios (usuario, senha, nome, role) VALUES (?, ?, ?, ?) with
\* bcrypt.hash(senha), nome || usuario and role || 'funcionario'.
InsertUsuario(tab, id, corpo) ==
  [ u \in DOMAIN tab \cup { id } |->
      IF u = id
        THEN [ usuario |-> corpo.usuario, senha |-> HashDe(corpo.senha),
               nome |-> IF corpo.nome = "" THEN corpo.usuario ELSE corpo.nome,
               role |-> IF corpo.role = "" THEN "funcionario" ELSE corpo.role ]
        ELSE tab[u] ]

\* UPDATE usuarios SET nome = ?, role = ? WHERE id = ?
UpdateUsuario(tab, id, corpo) ==
  [ u \in DOMAIN tab |->
      IF u = id THEN [ tab[u] EXCEPT !.nome = corpo.nome, !.role = corpo.role ]
                ELSE tab[u] ]

\* DELETE FROM usuarios WHERE id = ?
DeleteUsuario(tab, id) == [ u \in DOMAIN tab \ { id } |-> tab[u] ]

\* POST /users/new: the test of the fields, bcrypt.hash and the INSERT; a
\* name already taken breaks the UNIQUE constraint.
UsersNew ==
  /\ Admitido("POST /users/new")
  /\ \E corpo \in CorposUsuario :
       IF corpo.usuario = "" \/ corpo.senha = ""
         THEN /\ req' = [ req EXCEPT !.res = "Usuario e senha sao obrigatorios." ]
              /\ UNCHANGED << usuarios, seq_usuarios >>
       ELSE IF UsuariosChamados(corpo.usuario) # { }
         THEN /\ req' = [ req EXCEPT !.res = "Este usuario ja existe." ]
              /\ UNCHANGED << usuarios, seq_usuarios >>
       ELSE /\ usuarios' = InsertUsuario(usuarios, seq_usuarios + 1, corpo)
            /\ seq_usuarios' = seq_usuarios + 1
            /\ req' = [ req EXCEPT !.res = RedirectUsers ]
  /\ UNCHANGED << correias, consumo_correias, equipamentos, ordens, relogio,
                  baixa, pedidoOS, inicial, cadastro, password_tokens,
                  seq_tokens, reset, sessoes, chegadas >>

\* POST /users/:id/edit: the UPDATE.
UsersEdit ==
  /\ Admitido("POST /users/:id/edit")
  /\ \E id \in ParamUsuarios, corpo \in CorposEdicao :
       usuarios' = UpdateUsuario(usuarios, id, corpo)
  /\ req' = [ req EXCEPT !.res = RedirectUsers ]
  /\ UNCHANGED << correias, consumo_correias, equipamentos, ordens, relogio,
                  baixa, pedidoOS, inicial, cadastro, password_tokens,
                  seq_tokens, reset, seq_usuarios, sessoes, chegadas >>

\* POST /users/:id/delete: parseInt of the parameter, the test against the
\* session's own id, and the DELETE (NaN is bound as NULL and matches no row).
UsersDelete ==
  /\ Admitido("POST /users/:id/delete")
  /\ \E param \in ParamUsuariosTexto :
       LET id == ParseInt(param)
       IN  IF ~ id.nan /\ id.val = sessoes[req.session].userId
             THEN /\ req' = [ req EXCEPT !.res = "400 Voce nao pode excluir seu proprio usuario." ]
                  /\ UNCHANGED usuarios
           ELSE /\ usuarios' = IF id.nan THEN usuarios
                                ELSE DeleteUsuario(usuarios, id.val)
                /\ req' = [ req EXCEPT !.res = RedirectUsers ]
  /\ UNCHANGED << correias, consumo_correias, equipamentos, ordens, relogio,
                  baixa, pedidoOS, inicial, cadastro, password_tokens,
                  seq_tokens, reset, seq_usuarios, sessoes, chegadas >>

\* The statement of a /users POST handler is rejected by the store: its catch
\* block.
UsersErro ==
  /\ \E nome \in { "POST /users/new", "POST /users/:id/edit",
                    "POST /users/:id/delete" } : Admitido(nome)
  /\ req' = [ req EXCEPT !.res = "Erro em /users." ]
  /\ UNCHANGED << correias, consumo_correias, equipamentos, ordens, relogio,
                  baixa, pedidoOS, inicial, cadastro, usuarios,
                  password_tokens, seq_tokens, reset, seq_usuarios, sessoes,
                  chegadas >>

\* ---------------------------------------------------------------- Acesso
\* The store of a server that has opened MaxCarga - 1 orders, every part at
\* its largest stock, before any browser has logged in.
InitAcesso ==
  /\ correias = [ i \in CorreiasNoInicio |->
                    [ nome |-> NomeNoInicio(i), quantidade |-> MaxQtd ] ]
  /\ inicial = [ i \in CorreiasNoInicio |-> MaxQtd ]
  /\ consumo_correias = << >>
  /\ equipamentos = EquipamentosNoInicio
  /\ ordens = [ i \in 1 .. MaxCarga - 1 |->
                   [ id |-> i, equipamento_id |-> 1, solicitante |-> "Joao",
                     tipo |-> "corretiva", descricao |-> "ruido no motor",
                     status |-> "aberta", aberta_em |-> 0,
                     fechada_em |-> NULL, resultado |-> NULO ] ]
  /\ relogio = 0
  /\ baixa = [ r \in Baixas |-> BaixaLivre ]
  /\ pedidoOS = NenhumPedidoOS
  /\ seq_correias = 2
  /\ equipamentos_nome = [ e \in EquipamentosNoInicio |->
                             IF e = 1 THEN "Esteira" ELSE "Prensa" ]
  /\ correias_equipamentos = << >>
  /\ assoc = [ s \in Salvamentos |-> SalvarLivre ]
  /\ exclusao = ExclusaoLivre
  /\ pedidoCorreia = NenhumPedidoCorreia
  /\ atendidos = 0
  /\ relatorio = NenhumRelatorio
  /\ usuarios = UsuariosNoInicio
  /\ password_tokens = << >>
  /\ seq_tokens = 0
  /\ reset = [ r \in Resets |-> ResetLivre ]
  /\ seq_usuarios = 2
  /\ sessoes = [ s \in Sessoes |-> SessaoVazia ]
  /\ req = NenhumPedido
  /\ chegadas = 0

\* The session layer in front of every route that writes the store; a
\* handler is called for the request that came in last, while Carga is below
\* MaxCarga.
NextAcesso ==
  \/ Chega
  \/ Login
  \/ Logout
  \/ Ler
  \/ UsersNew
  \/ UsersEdit
  \/ UsersDelete
  \/ UsersErro
  \/ \E r \in Baixas :
       /\ Admitido("POST /equipamentos/:id/baixar-correia") /\ Carga < MaxCarga
       /\ PrimeiraLivre(baixa, r) /\ BaixarCorreia(r)
  \/ \E r \in Baixas : BaixarSelect(r)
  \/ \E r \in Baixas : RegistrarUpdate(r)
  \/ \E r \in Baixas : RegistrarInsert(r)
  \/ \E r \in Baixas : BaixarErro(r)
  \/ Admitido("POST /correias/novo") /\ Carga < MaxCarga /\ CorreiasNovo
  \/ Admitido("POST /correias/:id/editar") /\ Carga < MaxCarga /\ CorreiasEditar
  \/ Admitido("POST /correias/:id/delete") /\ Carga < MaxCarga /\ CorreiasDelete
  \/ \E s \in Salvamentos :
       /\ Admitido("POST /equipamentos/:id/correias") /\ Carga < MaxCarga
       /\ PrimeiraLivre(assoc, s) /\ SalvarDelete(s)
  \/ \E s \in Salvamentos : SalvarInsert(s)
  \/ \E s \in Salvamentos : SalvarErro(s)
  \/ Admitido("POST /equipamentos/:id/delete") /\ Carga < MaxCarga /\ ExcluirSelect
  \/ ExcluirDelete
  \/ ExcluirErro
  \/ Admitido("POST /ordens") /\ Carga < MaxCarga /\ AbrirOS
  \/ Admitido("POST /ordens/:id/fechar") /\ Carga < MaxCarga /\ FecharOS

SpecAcesso == InitAcesso /\ [][NextAcesso]_vars

\* The handlers of the token routes that were started: a request starts one
\* handler, so they are never more than the requests that came in.
Atendimentos ==
  seq_tokens + Cardinality({ r \in Resets : reset[r].pc # "livre" })

\* The session layer in front of the account routes.
NextUsuarios ==
  \/ Chega
  \/ Login
  \/ Logout
  \/ Ler
  \/ UsersNew
  \/ UsersEdit
  \/ UsersDelete
  \/ UsersErro
  \/ Admitido("POST /forgot") /\ Atendimentos < chegadas /\ Forgot
  \/ \E r \in Resets :
       /\ Admitido("POST /reset/:token") /\ Atendimentos < chegadas
       /\ PrimeiraLivre(reset, r) /\ ResetSelect(r)
  \/ \E r \in Resets : ResetUpdate(r)
  \/ \E r \in Resets : ResetDelete(r)
  \/ \E r \in Resets : ResetErro(r)

SpecUsuarios == InitCheio /\ [][NextUsuarios]_vars

\* ---------------------------------------------------------------- the server
\* Every route of the model, from the store of the start.
Next ==
  \/ NextBaixa
  \/ NextOrdens
  \/ NextEstoque
  \/ NextSalvar
  \/ NextGeral
  \/ NextRelatorio
  \/ NextReset
  \/ NextAcesso
  \/ NextUsuarios

Spec == Init /\ [][Next]_vars

\* The step taken is a step of debit request r.
PassoDe(r) == baixa'[r] # baixa[r]

\* The statement request r was waiting for was rejected by the store.
Rejeitado(r) == baixa'[r].resposta = ErroDebitar

\* ---------------------------------------------------------------- C1
\* C1: under every interleaving of concurrent Debit requests, the stock of
\* every part is non-negative in every reachable state.
C1_EstoqueNuncaNegativo ==
  \A i \in DOMAIN correias : correias[i].quantidade >= 0

\* ---------------------------------------------------------------- C2
\* C2: in every observable state, what has been taken from a part's stock is
\* exactly what its Consumption Records account for: no decrement without its
\* record, no record without its decrement.
C2_DebitoAtomico ==
  \A i \in DOMAIN correias :
    inicial[i] - correias[i].quantidade = SomaConsumo(consumo_correias, i)

\* ---------------------------------------------------------------- C3
\* C3: once every Debit call has completed, the stock of each part is its
\* initial stock minus the quantities of the debits that succeeded, which is
\* also the sum of the quantities of its Consumption Records.
C3_SaldoFinal ==
  (\A r \in Baixas : baixa[r].pc \in { "livre", "fim" }) =>
    \A i \in DOMAIN correias :
      /\ correias[i].quantidade = inicial[i] - SomaSucesso(Baixas, i)
      /\ SomaSucesso(Baixas, i) = SomaConsumo(consumo_correias, i)

\* ---------------------------------------------------------------- C4
\* What claim C4 requires of one step.
C4_Passos ==
  \A r \in Baixas :
    LET b == baixa[r] IN
      /\ ( /\ b.pc = "select" /\ PassoDe(r) /\ ~ Rejeitado(r)
           /\ b.quantidade > 0
           /\ ExisteCorreia(b.correia_id)
           /\ b.quantidade <= correias[b.correia_id].quantidade )
         => /\ baixa'[r].pc = "update"
            /\ correias' = correias
            /\ consumo_correias' = consumo_correias
      /\ ( b.pc = "update" /\ PassoDe(r) /\ ~ Rejeitado(r) )
         => /\ baixa'[r].pc = "insert"
            /\ DOMAIN correias' = DOMAIN correias
            /\ \A i \in DOMAIN correias :
                 correias'[i].quantidade =
                   IF i = b.correia_id THEN correias[i].quantidade - b.quantidade
                                       ELSE correias[i].quantidade
            /\ consumo_correias' = consumo_correias
      /\ ( b.pc = "insert" /\ PassoDe(r) /\ ~ Rejeitado(r) )
         => /\ baixa'[r].pc = "fim"
            /\ baixa'[r].resposta = Redirect
            /\ correias' = correias
            /\ Len(consumo_correias') = Len(consumo_correias) + 1
            /\ SubSeq(consumo_correias', 1, Len(consumo_correias)) = consumo_correias
            /\ LET novo == consumo_correias'[Len(consumo_correias')]
               IN  /\ novo.equipamento_id = b.equipamento_id
                   /\ novo.correia_id = b.correia_id
                   /\ novo.quantidade = b.quantidade

\* C4: a Debit(e, p, q) with q > 0, p existing and q <= stock(p) passes the
\* checks; its UPDATE takes exactly q from p and touches no other part; its
\* INSERT adds exactly one record (e, p, q); it is answered with the redirect.
C4_DebitoEfetua == [][C4_Passos]_vars

\* A debit of 2 went through: answered with the redirect, its part holds 2
\* less than at the start, its record is the only one, the other part is intact.
C4_Witness ==
  \E r \in Baixas :
    /\ baixa[r].resposta = Redirect
    /\ baixa[r].quantidade = 2
    /\ correias[baixa[r].correia_id].quantidade = inicial[baixa[r].correia_id] - 2
    /\ Len(consumo_correias) = 1
    /\ consumo_correias[1].quantidade = 2
    /\ \E i \in DOMAIN correias :
         i # baixa[r].correia_id /\ correias[i].quantidade = inicial[i] /\ inicial[i] > 0

\* ---------------------------------------------------------------- C5
\* What claim C5 requires of one step.
C5_Passos ==
  \A r \in Baixas :
    LET b == baixa[r] IN
      /\ ( /\ b.pc = "select" /\ PassoDe(r) /\ ~ Rejeitado(r)
           /\ ExisteCorreia(b.correia_id)
           /\ b.quantidade > correias[b.correia_id].quantidade )
         => /\ baixa'[r].pc = "fim"
            /\ baixa'[r].resposta = EstoqueInsuficiente
            /\ correias' = correias
            /\ consumo_correias' = consumo_correias
      /\ ( b.pc = "fim" /\ b.resposta = EstoqueInsuficiente ) => ~ PassoDe(r)

\* C5: a Debit whose quantity exceeds the stock its SELECT finds is answered
\* "Estoque insuficiente", writes nothing, and does nothing afterwards.
C5_EstoqueInsuficiente == [][C5_Passos]_vars

\* The scenario of the specification in small: stock 2, a debit of 1 goes
\* through, then a debit of 2 is refused; stock stays 1, history stays 1 row.
C5_Witness ==
  \E r1, r2 \in Baixas :
    /\ baixa[r1].resposta = Redirect /\ baixa[r1].quantidade = 1
    /\ baixa[r2].resposta = EstoqueInsuficiente /\ baixa[r2].quantidade = 2
    /\ baixa[r1].correia_id = baixa[r2].correia_id
    /\ inicial[baixa[r1].correia_id] = 2
    /\ correias[baixa[r1].correia_id].quantidade = 1
    /\ Len(consumo_correias) = 1

\* ---------------------------------------------------------------- C6
\* The parsed part id names a part of the store.
NomeiaCorreia(cid) == ~ cid.nan /\ ExisteCorreia(cid.val)

\* What claim C6 requires of one step.
C6_Passos ==
  \A r \in Baixas :
    LET b   == baixa[r]
        cid == ParseInt(baixa'[r].corpo_correia_id)
        qtd == ParseInt(baixa'[r].corpo_quantidade)
    IN
      /\ ( b.pc = "livre" /\ PassoDe(r) /\ (qtd.nan \/ qtd.val <= 0) )
         => /\ baixa'[r].pc = "fim"
            /\ baixa'[r].resposta = QuantidadeInvalida
            /\ correias' = correias
            /\ consumo_correias' = consumo_correias
      /\ ( b.pc = "livre" /\ PassoDe(r) /\ cid.nan )
         => /\ baixa'[r].pc = "fim"
            /\ baixa'[r].resposta = QuantidadeInvalida
            /\ correias' = correias
            /\ consumo_correias' = consumo_correias
      /\ ( b.pc = "select" /\ PassoDe(r) /\ ~ Rejeitado(r)
           /\ ~ NomeiaCorreia(ParseInt(b.corpo_correia_id)) )
         => /\ baixa'[r].pc = "fim"
            /\ baixa'[r].resposta = CorreiaNaoEncontrada
            /\ correias' = correias
            /\ consumo_correias' = consumo_correias
      /\ ( b.pc = "fim"
           /\ b.resposta \in { QuantidadeInvalida, CorreiaNaoEncontrada } )
         => ~ PassoDe(r)

\* C6: a Debit whose quantity parses to zero, a negative number or NaN is
\* answered "Quantidade invalida"; one whose part id names no part is answered
\* with that or with "Correia nao encontrada"; either way no stock and no
\* history row changes, and the request does nothing afterwards.
C6_EntradaRejeitada == [][C6_Passos]_vars

\* One request was refused for a quantity that is not a number, another for a
\* part id that names no part, and the store is as it was.
C6_Witness ==
  \E r1, r2 \in Baixas :
    /\ baixa[r1].resposta = QuantidadeInvalida
    /\ ParseInt(baixa[r1].corpo_quantidade).nan
    /\ NomeiaCorreia(ParseInt(baixa[r1].corpo_correia_id))
    /\ baixa[r2].resposta = CorreiaNaoEncontrada
    /\ baixa[r2].pc = "fim"
    /\ consumo_correias = << >>
    /\ \A i \in DOMAIN correias : correias[i].quantidade = inicial[i]

\* ---------------------------------------------------------------- orders
\* The step taken served a request of the /ordens routes (pedidoOS' is it).
PassoOS == pedidoOS' # pedidoOS \/ ordens' # ordens

ExisteOrdem(tab, id) == \E i \in DOMAIN tab : tab[i].id = id

\* ---------------------------------------------------------------- C7
\* What claim C7 requires of one step.
C7_Passos ==
  \A i \in DOMAIN ordens :
    ordens[i].status = "fechada" =>
      /\ ordens'[i] = ordens[i]
      /\ ( PassoOS /\ pedidoOS'.rota = "fechar" /\ pedidoOS'.id = ordens[i].id )
           => pedidoOS'.resposta # Redirect

\* C7: a closed order is immutable: no step changes its row, and a Close
\* request naming it is rejected rather than answered with the redirect.
C7_FechadaImutavel == [][C7_Passos]_vars

\* ---------------------------------------------------------------- C8
\* What claim C8 requires of one step.
C8_Passos ==
  ( PassoOS /\ pedidoOS'.rota = "fechar" /\ pedidoOS'.resposta # ErroFecharOS ) =>
    \A i \in DOMAIN ordens :
      ( ordens[i].id = pedidoOS'.id /\ ordens[i].status = "aberta" ) =>
        /\ pedidoOS'.resposta = Redirect
        /\ ordens' = [ ordens EXCEPT ![i] =
                         [ @ EXCEPT !.status = "fechada",
                                    !.fechada_em = relogio,
                                    !.resultado = pedidoOS'.resultado ] ]

\* C8: a Close of an existing open order that the store accepts sets, in one
\* step, status to closed, closed_at to the current time and result to the
\* given result, changes no other order, and is answered with the redirect.
C8_FecharEfetua == [][C8_Passos]_vars

\* Order 1 was just closed at time 1 with its result while order 2 is open.
C8_Witness ==
  /\ Len(ordens) = 2
  /\ pedidoOS.rota = "fechar" /\ pedidoOS.id = 1 /\ pedidoOS.resposta = Redirect
  /\ ordens[1].status = "fechada"
  /\ ordens[1].fechada_em = 1 /\ relogio = 1
  /\ ordens[1].aberta_em = 0
  /\ ordens[1].resultado = pedidoOS.resultado
  /\ ordens[2].status = "aberta" /\ ordens[2].fechada_em = NULL
  /\ ordens[2].resultado = NULO

\* ---------------------------------------------------------------- C9
\* What claim C9 requires of one step.
C9_Passos ==
  ( PassoOS /\ pedidoOS'.rota = "fechar" /\ ~ ExisteOrdem(ordens, pedidoOS'.id) ) =>
    /\ pedidoOS'.resposta # Redirect
    /\ ordens' = ordens

\* C9: a Close naming an order id that does not exist is not answered as a
\* success, and leaves every order unchanged.
C9_OrdemInexistente == [][C9_Passos]_vars

\* ---------------------------------------------------------------- C10
\* What claim C10 requires of one step.
C10_Passos ==
  ( PassoOS /\ pedidoOS'.rota = "abrir" /\ pedidoOS'.resposta # ErroCriarOS ) =>
    /\ pedidoOS'.resposta = Redirect
    /\ Len(ordens') = Len(ordens) + 1
    /\ SubSeq(ordens', 1, Len(ordens)) = ordens
    /\ LET nova == ordens'[Len(ordens')]
       IN  /\ nova.status = "aberta"
           /\ nova.aberta_em = relogio
           /\ nova.fechada_em = NULL
           /\ nova.resultado = NULO
           /\ nova.equipamento_id = pedidoOS'.equipamento_id
           /\ ~ ExisteOrdem(ordens, nova.id)

\* C10: an Open that the store accepts adds exactly one order: status open,
\* opened_at the current time, closed_at and result null, an id no existing
\* order has, the equipment reference as submitted (null and dangling ones
\* included); every existing order is unchanged; the answer is the redirect.
C10_AbrirCria == [][C10_Passos]_vars

\* Two orders were opened, one without equipment and one for an equipment
\* that does not exist; both are open and the last Open was answered redirect.
C10_Witness ==
  /\ Len(ordens) = 2
  /\ pedidoOS.rota = "abrir" /\ pedidoOS.resposta = Redirect
  /\ ordens[1].equipamento_id = NULL
  /\ ordens[2].equipamento_id # NULL /\ ordens[2].equipamento_id \notin equipamentos
  /\ ordens[1].id # ordens[2].id
  /\ ordens[1].status = "aberta" /\ ordens[2].status = "aberta"
  /\ ordens[2].aberta_em = 1 /\ ordens[2].fechada_em = NULL

\* ---------------------------------------------------------------- C11
\* Every order is open or closed.
C11_Status ==
  \A i \in DOMAIN ordens : ordens[i].status \in { "aberta", "fechada" }

\* What claim C11 requires of one step.
C11_Passos ==
  /\ Len(ordens') >= Len(ordens)
  /\ \A i \in DOMAIN ordens :
       /\ ordens'[i].id = ordens[i].id
       /\ ordens'[i].status # ordens[i].status
            => ( ordens[i].status = "aberta" /\ ordens'[i].status = "fechada" )

C12_DataDeFechamento ==
  \A i \in DOMAIN ordens :
    /\ ( ordens[i].fechada_em = NULL ) <=> ( ordens[i].status = "aberta" )
    /\ ordens[i].status = "aberta" => ordens[i].resultado = NULO

\* Order 2 is closed with a closing time and a result while order 1, opened
\* before it, is still open with neither.
C12_Witness ==
  /\ Len(ordens) = 2
  /\ ordens[2].status = "fechada" /\ ordens[2].fechada_em # NULL
  /\ ordens[2].resultado # NULO
  /\ ordens[1].status = "aberta" /\ ordens[1].fechada_em = NULL
  /\ ordens[1].resultado = NULO

\* ---------------------------------------------------------------- C13
\* C13: the quantidade of every part is a non-negative integer (never negative,
\* never NULL) in every state reachable by part creations, part edits and
\* Debits, whatever quantity a creation or an edit submits.
C13_QuantidadeNatural ==
  \A i \in DOMAIN correias :
    correias[i].quantidade # QtdNull /\ correias[i].quantidade >= 0

\* ---------------------------------------------------------------- C14
\* What claim C14 requires of one step.
C14_Passos ==
  /\ Len(consumo_correias') >= Len(consumo_correias)
  /\ SubSeq(consumo_correias', 1, Len(consumo_correias)) = consumo_correias
  /\ consumo_correias' # consumo_correias =>
       \E r \in Baixas :
         /\ baixa[r].pc = "insert"
         /\ baixa'[r].pc = "fim" /\ baixa'[r].resposta = Redirect
         /\ Len(consumo_correias') = Len(consumo_correias) + 1
         /\ consumo_correias'[Len(consumo_correias')].correia_id
              = baixa[r].correia_id
         /\ consumo_correias'[Len(consumo_correias')].quantidade
              = baixa[r].quantidade

\* C14: the consumption history is append-only and written only by Debit: no
\* step changes or removes an existing record, and a step that changes the
\* history is the last statement of a Debit that is answered with the
\* redirect, adding that Debit's one record; every step of a part creation,
\* edit or delete, an equipment delete, a save of associations, an Open or a
\* Close leaves the history as it was.
C14_HistoricoSoCresce == [][C14_Passos]_vars

\* A Debit of a part was recorded and the part was deleted afterwards: the
\* record is still there.
C14_Witness ==
  /\ Len(consumo_correias) = 1
  /\ consumo_correias[1].correia_id \notin DOMAIN correias
  /\ pedidoCorreia.rota = "delete" /\ pedidoCorreia.resposta = Redirect
  /\ \E r \in Baixas : baixa[r].resposta = Redirect

\* ---------------------------------------------------------------- C15
\* The Debit handler run alone, without rejection by the store, on a part
\* holding s: what it leaves as stock, what it adds to the history, its answer.
DebitoSerial(s, q) ==
  IF Insuficiente(s, q)
    THEN [ estoque |-> s, historico |-> << >>, resposta |-> EstoqueInsuficiente ]
    ELSE [ estoque |-> Menos(s, q), historico |-> << q >>, resposta |-> Redirect ]

\* The quantities recorded in the history, in order.
QuantidadesDe(tab) == [ i \in DOMAIN tab |-> tab[i].quantidade ]

\* C15: when one Debit and one Restock (an edit) of the same part have both
\* been answered, neither rejected by the store, and nothing else was
\* requested, the stock of the part, the history and the Debit's answer are
\* those of the Debit followed by the Restock or of the Restock followed by
\* the Debit.
C15_Serializavel ==
  \A r \in Baixas :
    ( /\ Carga = 2 /\ atendidos = 1
      /\ pedidoCorreia.rota = "editar" /\ pedidoCorreia.resposta = Redirect
      /\ baixa[r].pc = "fim"
      /\ baixa[r].resposta \in { Redirect, EstoqueInsuficiente }
      /\ baixa[r].correia_id = pedidoCorreia.id )
    =>
      LET cid   == baixa[r].correia_id
          q     == baixa[r].quantidade
          novo  == Guardado(QuantidadeOuZero(pedidoCorreia.corpo.quantidade))
          de    == DebitoSerial(inicial[cid], q)   \* Debit, then Restock
          ed    == DebitoSerial(novo, q)           \* Restock, then Debit
          final == [ estoque |-> correias[cid].quantidade,
                     historico |-> QuantidadesDe(consumo_correias),
                     resposta |-> baixa[r].resposta ]
      IN  \/ final = [ de EXCEPT !.estoque = novo ]
          \/ final = ed

\* ---------------------------------------------------------------- C16
\* The rows of table tab that belong to equipment e.
AssociacoesDe(tab, e) == SelectSeq(tab, LAMBDA row : row.equipamento_id = e)

\* The rows that the form of request a selects: one per checked part, with
\* the usage quantity submitted for it.
Selecao(a) ==
  { [ equipamento_id |-> a.equipamento_id,
      correia_id |-> ParseInt(a.correiaIds[j]).val,
      quantidade_usada |-> Guardado(QuantidadeOuUm(a.qtds[j])) ] :
    j \in DOMAIN a.correiaIds }

\* The rows of table tab are the rows of set sel (a row stored twice counts
\* as stored).
Exatamente(tab, sel) == { tab[j] : j \in DOMAIN tab } = sel

\* C16: when every save requested for an equipment E has been answered with
\* the redirect (one save, or two that ran concurrently), the associations of
\* E are exactly the parts selected in one of those saves with their
\* submitted usage quantities, and an equipment for which no save was
\* requested has the associations it had.
C16_SubstituiTudo ==
  \A e \in ParamSalvar :
    LET pedidos == { s \in Salvamentos :
                      assoc[s].pc # "livre" /\ assoc[s].equipamento_id = e }
    IN  /\ pedidos = {} => AssociacoesDe(correias_equipamentos, e) = << >>
        /\ ( /\ pedidos # {}
             /\ \A s \in pedidos :
                  assoc[s].pc = "fim" /\ assoc[s].resposta = Redirect )
           => \E s \in pedidos :
                Exatamente(AssociacoesDe(correias_equipamentos, e),
                           Selecao(assoc[s]))

\* ---------------------------------------------------------------- C17
\* What claim C17 requires of one step.
C17_Passos ==
  exclusao' # exclusao =>
    /\ ordens' = ordens
    /\ consumo_correias' = consumo_correias
    /\ correias' = correias
    /\ equipamentos' =
         IF exclusao.pc = "delete" /\ exclusao'.resposta = Redirect
           THEN equipamentos \ { exclusao.id }
           ELSE equipamentos

\* C17: every step of an equipment delete leaves every order, every
\* Consumption Record and every stock quantity as it was, those that reference
\* the equipment included; the step that is answered with the redirect
\* removes the row of that equipment and no other row.
C17_ExcluirSoEquipamento == [][C17_Passos]_vars

\* Equipment 1 was deleted and the record of a Debit made for it is still in
\* the history; equipment 2 is still there.
C17_Witness ==
  /\ exclusao.resposta = Redirect /\ exclusao.id = 1
  /\ equipamentos = { 2 }
  /\ Len(consumo_correias) = 1 /\ consumo_correias[1].equipamento_id = 1

\* ---------------------------------------------------------------- C18
\* The (equipment, part) pairs that have a Consumption Record in month mes.
ParesDoMes(mes) ==
  { << consumo_correias[j].equipamento_id, consumo_correias[j].correia_id >> :
    j \in { i \in DOMAIN consumo_correias :
               Mes(consumo_correias[i].data) = mes } }

\* Sum of the quantities of the records of pair (e, c) in month mes.
RECURSIVE SomaDoPar(_, _, _, _)
SomaDoPar(tab, e, c, mes) ==
  IF tab = << >> THEN 0
  ELSE ( IF Head(tab).equipamento_id = e /\ Head(tab).correia_id = c
            /\ Mes(Head(tab).data) = mes
           THEN Head(tab).quantidade ELSE 0 )
       + SomaDoPar(Tail(tab), e, c, mes)

\* What claim C18 requires of one step.
C18_Passos ==
  relatorio' # relatorio =>
    /\ UNCHANGED << correias, consumo_correias, equipamentos,
                    equipamentos_nome, ordens, correias_equipamentos >>
    /\ relatorio'.resposta = Renderizado =>
         /\ Len(relatorio'.rel) = Cardinality(ParesDoMes(relatorio'.mes))
         /\ \A par \in ParesDoMes(relatorio'.mes) :
              \E j \in DOMAIN relatorio'.rel :
                /\ relatorio'.rel[j].equipamento = NomeEquipamento(par[1])
                /\ relatorio'.rel[j].correia = NomeCorreia(par[2])
                /\ relatorio'.rel[j].total =
                     SomaDoPar(consumo_correias, par[1], par[2],
                               relatorio'.mes)

\* C18: the monthly report changes nothing in the store, and the page it
\* renders for month M has exactly one row for each (equipment, part) pair
\* with Consumption Records in M, whose total is the sum of the quantities of
\* that pair's records in M: records of other months count in no row and two
\* equipment (or two parts) never share a row.
C18_RelatorioMensal == [][C18_Passos]_vars

\* ---------------------------------------------------------------- C19
\* What claim C19 requires of one step.
C19_Passos ==
  /\ PassoOS => /\ correias' = correias
                /\ consumo_correias' = consumo_correias
  /\ ( \E r \in Baixas : PassoDe(r) ) => ordens' = ordens
  /\ ordens' = ordens \/ ( correias' = correias
                            /\ consumo_correias' = consumo_correias )

\* C19: a step of an Open or a Close changes no part's stock and no
\* Consumption Record, a step of a Debit changes no order, and no step at all
\* changes an order together with the stock or the history.
C19_OrdensELedger == [][C19_Passos]_vars

\* An order was opened and closed and then a Debit was served: the order is
\* as the Close left it and one unit of part 1 went from stock to history.
C19_Witness ==
  /\ Len(ordens) = 1 /\ ordens[1].status = "fechada"
  /\ ordens[1].resultado = pedidoOS.resultado /\ pedidoOS.rota = "fechar"
  /\ \E r \in Baixas : baixa[r].resposta = Redirect /\ baixa[r].correia_id = 1
  /\ Len(consumo_correias) = 1
  /\ correias[1].quantidade = inicial[1] - consumo_correias[1].quantidade

\* ---------------------------------------------------------------- C20
\* Request x has changed a password: its UPDATE ran and was not rejected.
JaAlterou(x) ==
  x.pc = "delete" \/ ( x.pc = "fim" /\ x.resposta = SenhaAtualizada )

\* What claim C20 requires of one step.
C20_Passos ==
  \A r \in Resets :
    ( reset[r].pc = "update" /\ reset'[r].pc = "delete" ) =>
      ~ \E q \in Resets \ { r } :
          reset[q].token = reset[r].token /\ JaAlterou(reset[q])

\* C20: a reset token is used once: no POST /reset/:token runs its password
\* UPDATE when another request carrying the same token, finished or still
\* running, has already run its own.
C20_TokenUsoUnico == [][C20_Passos]_vars

\* ---------------------------------------------------------------- sessions
\* The tables the routes write.
Armazem ==
  << equipamentos, equipamentos_nome, correias, correias_equipamentos,
     consumo_correias, ordens, usuarios >>

\* The step is the arrival of a request.
Chegou == chegadas' = chegadas + 1

\* The step starts the handler of the request that came in last: a position
\* of a handler is taken, or a handler of one statement runs and answers.
Inicia ==
  \/ \E r \in Baixas : baixa[r].pc = "livre" /\ baixa'[r].pc # "livre"
  \/ \E s \in Salvamentos : assoc[s].pc = "livre" /\ assoc'[s].pc # "livre"
  \/ \E r \in Resets : reset[r].pc = "livre" /\ reset'[r].pc # "livre"
  \/ exclusao.pc = "livre" /\ exclusao'.pc # "livre"
  \/ pedidoOS' # pedidoOS
  \/ ordens' # ordens
  \/ atendidos' # atendidos
  \/ seq_tokens' # seq_tokens
  \/ ~ Chegou /\ req' # req

\* Request p carries a session that is not logged in.
SemSessao(p) == p.session \in Sessoes /\ sessoes[p.session].usuario = NULO

\* ---------------------------------------------------------------- C21
\* The path is one of the open routes or of the static assets.
C21_Aberto(url) ==
  /\ url # << >>
  /\ url[1] \in { "/login", "/forgot", "/reset",
                  "/css", "/js", "/img", "/uploads" }

\* What claim C21 requires of one step.
C21_Passos ==
  /\ ( Chegou /\ SemSessao(req') /\ ~ C21_Aberto(req'.path) ) =>
        ( req'.res = RedirectLogin /\ Armazem' = Armazem )
  /\ ( Inicia /\ SemSessao(req) ) => C21_Aberto(req.path)

\* C21: a request without a logged-in session to a path that is neither an
\* open route (/login, /forgot, /reset) nor a static asset is redirected to
\* the login page, and changes nothing in the store: its arrival leaves the
\* tables as they are and no handler is started for it, /api/* included.
C21_SemSessaoNadaMuda == [][C21_Passos]_vars

\* A request to /api/ordens without a session was sent to the login page
\* while the other browser was logged in.
C21_Witness ==
  /\ req.path = << "/api", "/ordens" >>
  /\ req.res = RedirectLogin
  /\ SemSessao(req)
  /\ \E s \in Sessoes : Logado(sessoes[s])

\* ---------------------------------------------------------------- C22
\* The /users routes that write the user table.
RotasUsers ==
  { "POST /users/new", "POST /users/:id/edit", "POST /users/:id/delete" }

\* The step runs the handler of a /users route for a session whose role is
\* admin.
PedidoAdmin ==
  /\ req.res = EmAtendimento
  /\ req.rota \in RotasUsers
  /\ sessoes[req.session].role = "admin"

\* The accounts without their passwords.
SemSenha(tab) ==
  [ u \in DOMAIN tab |->
      [ usuario |-> tab[u].usuario, nome |-> tab[u].nome,
        role |-> tab[u].role ] ]

\* The step rewrites the password of an account that stays.
TrocaSenha ==
  \E u \in DOMAIN usuarios \cap DOMAIN usuarios' :
    usuarios'[u].senha # usuarios[u].senha

\* The step is the password UPDATE of a POST /reset/:token request.
PassoReset ==
  \E r \in Resets : reset[r].pc = "update" /\ reset'[r].pc = "delete"

\* A delete request leaves the account of the session that sent it.
NaoExcluiProprio ==
  ( req.rota = "POST /users/:id/delete" /\ req.res = EmAtendimento
    /\ ~ Chegou /\ req' # req ) =>
      ( sessoes[req.session].userId \in DOMAIN usuarios =>
          sessoes[req.session].userId \in DOMAIN usuarios' )

\* A request of a logged-in session that is not admin to a /users route is
\* answered 403 and leaves the user table as it is.
NaoAdminNegado ==
  ( /\ Chegou
    /\ req'.path # << >> /\ req'.path[1] = "/users"
    /\ Logado(sessoes[req'.session])
    /\ sessoes[req'.session].role # "admin" ) =>
      ( req'.res = AcessoNegado /\ usuarios' = usuarios )

\* What claim C22 requires of one step, as the claim states it.
C22_PassosOriginal ==
  /\ usuarios' # usuarios => PedidoAdmin
  /\ NaoExcluiProprio
  /\ NaoAdminNegado

\* The claim as stated: every write to the user table is a /users request of
\* an admin session.
C22_SoAdminOriginal == [][C22_PassosOriginal]_vars

\* What the amended claim requires of one step.
C22_Passos ==
  /\ SemSenha(usuarios') # SemSenha(usuarios) => PedidoAdmin
  /\ TrocaSenha => PassoReset
  /\ NaoExcluiProprio
  /\ NaoAdminNegado

\* C22: user accounts are created and deleted, and their name and role
\* edited, only by /users requests whose session role is admin; the password
\* of an account is rewritten only by POST /reset/:token, which needs no
\* session; a delete request never removes the account of the session user
\* who issued it; a request from a logged-in non-admin session to any /users
\* route is answered 403 and leaves the user table unchanged.
C22_SoAdmin == [][C22_Passos]_vars

\* An admin session deleted the account of another user and kept its own.
C22_Witness ==
  /\ req.rota = "POST /users/:id/delete"
  /\ req.res = RedirectUsers
  /\ sessoes[req.session].role = "admin"
  /\ sessoes[req.session].userId \in DOMAIN usuarios
  /\ 2 \notin DOMAIN usuarios

====
